---- MODULE Spec2Model ----
(***************************************************************************)
(* Model of femtovg's font face and glyph cache (src/text/font.rs).        *)
(*                                                                         *)
(* A Font owns the font bytes, the face index, units_per_em, the unscaled  *)
(* FontMetrics and a RefCell<FnvHashMap<u16, Glyph>>.  The crate is built  *)
(* with exactly one of three font.rs variants, chosen by cargo features:   *)
(*   "textlayout"  ttf_parser  (outlines and embedded raster strikes)      *)
(*   "swash"       swash       (outlines through a shared ScaleContext)    *)
(*   "none"        neither feature: every construction fails               *)
(* The parsing libraries are outside the repository; a font file is        *)
(* modelled by what the library reports for it (FontFiles below).          *)
(*                                                                         *)
(* f32 values are modelled as exact rationals <<n, d>> in lowest terms     *)
(* with d > 0, plus the IEEE results of a division by zero: <<1, 0>> is    *)
(* +inf, <<-1, 0>> is -inf and <<0, 0>> is NaN.  Rounding error of f32 is  *)
(* not modelled.                                                           *)
(***************************************************************************)
EXTENDS Integers, Sequences, FiniteSets, TLC

(***************************************************************************)
(* Bounds of the model.                                                    *)
(***************************************************************************)
\* glyph ids (u16 in the source) range over 0..MaxGlyphId
MaxGlyphId == 1
\* face indices passed to new_with_data range over 0..MaxFaceIndex
MaxFaceIndex == 1

\* font slots of the registry, filled in order
Fonts == {1, 2}
GlyphIds == 0..MaxGlyphId
FaceIndices == 0..MaxFaceIndex
\* sizes passed to metrics()/scale()
Sizes == {-16, 16}
\* pixels_per_em passed to glyph_rendering_representation
PixelsPerEm == {16, 64}

Backends == {"textlayout", "swash", "none"}

(***************************************************************************)
(* Option<T>: None is the empty sequence, Some(x) is <<x>>.                *)
(***************************************************************************)
None == << >>
Some(x) == << x >>
IsSome(o) == o # None
Unwrap(o) == o[1]

(***************************************************************************)
(* f32 as exact rationals.                                                 *)
(***************************************************************************)
Abs(n) == IF n < 0 THEN -n ELSE n
Sign(n) == IF n < 0 THEN -1 ELSE IF n = 0 THEN 0 ELSE 1

RECURSIVE Gcd(_, _)
Gcd(a, b) == IF b = 0 THEN a ELSE Gcd(b, a % b)

\* n / d as a float division: a zero divisor gives +inf, -inf or NaN
Rat(n, d) ==
    IF d = 0 THEN << Sign(n), 0 >>
    ELSE LET g == Gcd(Abs(n), Abs(d))
             s == IF d < 0 THEN -1 ELSE 1
         IN  << (s * n) \div g, (s * d) \div g >>

\* `x as f32` for an integer x
F32(n) == << n, 1 >>

FMul(a, b) == Rat(a[1] * b[1], a[2] * b[2])
FDiv(a, b) == Rat(a[1] * b[2], a[2] * b[1])
FAdd(a, b) ==
    IF a[2] = 0 \/ b[2] = 0
    THEN (IF a[2] = 0 /\ b[2] = 0
          THEN (IF a[1] = b[1] THEN a ELSE << 0, 0 >>)
          ELSE (IF a[2] = 0 THEN a ELSE b))
    ELSE Rat(a[1] * b[2] + b[1] * a[2], a[2] * b[2])
FNeg(a) == << -a[1], a[2] >>
IsFinite(a) == a[2] # 0

(***************************************************************************)
(* Font files.  Each is described by what the parsing library reports for  *)
(* it: the number of faces, the head/hhea/OS/2 values of a face and, per   *)
(* glyph id, the outline and the embedded raster strikes.                  *)
(*   "garbage"  bytes that are no font at all                              *)
(*   "text"     a face of outline glyphs; glyph 1 has no outline           *)
(*   "emoji"    a face with outlines and embedded raster strikes: glyph 0  *)
(*              has a PNG strike and a larger strike in another format,    *)
(*              glyph 1 a PNG strike, glyph 2 PNG strikes and no outline,  *)
(*              glyph 3 a corrupt PNG strike and no outline                *)
(*   "zeroupm"  a well-formed face whose head table has unitsPerEm = 0     *)
(*   "bitmap"   a face of embedded bitmaps: glyph 0 has a PNG strike that  *)
(*              records 0 pixels per em and no outline, glyph 1 a corrupt  *)
(*              PNG strike and an outline                                  *)
(***************************************************************************)
FontFiles == {"garbage", "text", "emoji", "zeroupm"}

NumFaces(file) ==
    CASE file = "garbage" -> 0
      [] file = "text"    -> 1
      [] OTHER            -> 1

\* values of the head, hhea and OS/2 tables of face idx of file
FaceTables(file, idx) ==
    CASE file = "text" /\ idx = 0 ->
            [units_per_em |-> 1000, ascender |-> 800, descender |-> -200,
             line_gap |-> 90, weight |-> 400, width |-> 5, style |-> "Normal",
             stretch |-> "NORMAL", bold |-> FALSE, variable |-> FALSE]
      [] file = "text" /\ idx # 0 ->
            [units_per_em |-> 1000, ascender |-> 800, descender |-> -200,
             line_gap |-> 90, weight |-> 700, width |-> 3, style |-> "Italic",
             stretch |-> "CONDENSED", bold |-> TRUE, variable |-> FALSE]
      [] file \in {"emoji", "bitmap"} ->
            [units_per_em |-> 2048, ascender |-> 1900, descender |-> -500,
             line_gap |-> 0, weight |-> 400, width |-> 5, style |-> "Normal",
             stretch |-> "NORMAL", bold |-> FALSE, variable |-> TRUE]
      [] OTHER ->
            [units_per_em |-> 0, ascender |-> 800, descender |-> -200,
             line_gap |-> 0, weight |-> 400, width |-> 5, style |-> "Normal",
             stretch |-> "NORMAL", bold |-> FALSE, variable |-> FALSE]

\* the outline of glyph g: its path commands and bounding box
OutlineOf(file, g) ==
    [path |-> << file, g >>,
     bbox |-> [x_min |-> g, y_min |-> -g, x_max |-> 500 + g, y_max |-> 700]]

\* whether the glyf/CFF tables hold an outline for glyph g.  A glyph id with
\* neither outline nor strike is absent (or its table entry is malformed).
HasOutline(file, g) ==
    CASE file = "text"    -> g # 1
      [] file = "emoji"   -> g \in {0, 1}
      [] file = "zeroupm" -> g \in {0, 1}
      [] file = "bitmap"  -> g = 1
      [] OTHER            -> FALSE

Strike(ppem, format, decodable, w) ==
    [pixels_per_em |-> ppem, format |-> format, decodable |-> decodable,
     x |-> 2, y |-> -3, width |-> w, height |-> w]

\* the embedded raster strikes of glyph g (sbix/CBDT/EBDT); only PNG data
\* can decode as PNG, and PNG data may be corrupt
StrikesOf(file, g) ==
    IF file = "bitmap"
    THEN CASE g = 0 -> {Strike(0, "PNG", TRUE, 30)}
           [] g = 1 -> {Strike(64, "PNG", FALSE, 60)}
           [] OTHER -> {}
    ELSE IF file # "emoji" THEN {}
    ELSE CASE g = 0 -> {Strike(32, "PNG", TRUE, 30),
                        Strike(64, "BitmapPremulBgra32", FALSE, 60)}
           [] g = 1 -> {Strike(64, "PNG", TRUE, 60)}
           [] g = 2 -> {Strike(32, "PNG", TRUE, 30), Strike(64, "PNG", TRUE, 60)}
           [] g = 3 -> {Strike(64, "PNG", FALSE, 60)}
           [] OTHER -> {}

(***************************************************************************)
(* State.                                                                  *)
(***************************************************************************)
VARIABLES
    backend,        \* the cargo feature set the crate was built with
    imageLoading,   \* whether feature "image-loading" is enabled
    fonts,          \* font slot -> Option<Font> (data, face_index, units_per_em, metrics)
    glyphs,         \* font slot -> content of Font::glyphs: glyph id -> Glyph
    borrow,         \* font slot -> borrow flag of the RefCell around Font::glyphs:
                    \*   0 unborrowed, n > 0 shared Refs alive, -1 a RefMut alive
    scale_context,  \* the Rc<RefCell<ScaleContext>>: strong count and borrow flag
    held,           \* font slot -> Option of the glyph id whose Ref the caller still holds
    call,           \* the last operation: its arguments, its result, the backend
                    \* calls it made and what it found when it was called
    first,          \* font slot -> glyph id -> Option of the first glyph() result
    aborted         \* a panic ended the process

vars == << backend, imageLoading, fonts, glyphs, borrow, scale_context, held,
           call, first, aborted >>

(***************************************************************************)
(* FontFlags and FontMetrics.                                              *)
(***************************************************************************)
Bit(b, mask) == IF b THEN mask ELSE 0

\* FontFlags::new: the five booleans packed into a u8
FontFlagsNew(regular, italic, bold, oblique, variable) ==
    Bit(regular, 1) + Bit(italic, 2) + Bit(bold, 4) + Bit(oblique, 8) + Bit(variable, 16)

\* mutant: the bold accessor's mask also covers the italic bit
FlagsBoldOrItalic(flags) == (flags \div 2) % 4 > 0

FlagsRegular(flags)  == (flags \div 1) % 2 > 0
FlagsItalic(flags)   == (flags \div 2) % 2 > 0
FlagsBold(flags)     == (flags \div 4) % 2 > 0
FlagsOblique(flags)  == (flags \div 8) % 2 > 0
FlagsVariable(flags) == (flags \div 16) % 2 > 0

\* mutant: the height is left in font units
MetricsScaleSkipsHeight(m, scale) ==
    [m EXCEPT !.ascender = FMul(@, scale),
              !.descender = FMul(@, scale)]

\* FontMetrics::scale
MetricsScale(m, scale) ==
    [m EXCEPT !.ascender = FMul(@, scale),
              !.descender = FMul(@, scale),
              !.height = FMul(@, scale)]

\* mutant: the fraction is cut off
FTrunc(a) ==
    IF a[2] = 0 THEN a ELSE << Sign(a[1]) * (Abs(a[1]) \div a[2]), 1 >>

\* f32::round: the nearest integer, halves away from zero; an infinity or a
\* NaN is returned as it is
FRound(a) ==
    IF a[2] = 0 THEN a
    ELSE << Sign(a[1]) * ((2 * Abs(a[1]) + a[2]) \div (2 * a[2])), 1 >>

\* FontMetrics::height
MetricsHeight(m) == FRound(m.height)

(***************************************************************************)
(* new_with_data, "textlayout" variant.                                    *)
(***************************************************************************)
\* ttf_parser::Face::parse: the face index must exist, and the library
\* rejects a head table whose unitsPerEm is outside 16..=16384
TtfParse(file, idx) ==
    IF idx < NumFaces(file)
       /\ FaceTables(file, idx).units_per_em >= 16
       /\ FaceTables(file, idx).units_per_em <= 16384
    THEN Some([file |-> file, idx |-> idx])
    ELSE None

\* the FontMetrics built from what ttf_parser reports for a face: t
TextlayoutMetricsOf(t) ==
    [ascender  |-> F32(t.ascender),
     descender |-> F32(t.descender),
     \* ttf_parser height(): ascender - descender + line gap
     height    |-> F32(t.ascender - t.descender + t.line_gap),
     flags     |-> FontFlagsNew(t.style = "Normal", t.style = "Italic", t.bold,
                                t.style = "Oblique", t.variable),
     \* Width::to_number() is 1..9; Weight::to_number() is the raw
     \* usWeightClass for a value that has no name
     width     |-> t.width,
     weight    |-> t.weight]

TextlayoutMetrics(face) == TextlayoutMetricsOf(FaceTables(face.file, face.idx))

\* Result<Font, ErrorKind> of the textlayout new_with_data
NewFontTextlayout(file, idx) ==
    LET ttf_font == TtfParse(file, idx)
    IN  IF ttf_font = None THEN None
        ELSE Some([data         |-> file,
                   face_index   |-> idx,
                   units_per_em |-> FaceTables(file, idx).units_per_em,
                   metrics      |-> TextlayoutMetrics(Unwrap(ttf_font))])

(***************************************************************************)
(* new_with_data, "swash" variant.                                         *)
(***************************************************************************)
\* mutant: the face index is not checked against the file
SwashFontRefUnchecked(file, idx) == Some([file |-> file, idx |-> idx])

\* swash::FontRef::from_index: the face index must exist; the head table's
\* unitsPerEm is read as it is
SwashFontRef(file, idx) ==
    IF idx < NumFaces(file) THEN Some([file |-> file, idx |-> idx]) ELSE None

\* mutant: every stretch is taken for normal
SwashWidthNormal(stretch) == 5

\* swash::Stretch to usWidthClass
SwashWidth(stretch) ==
    CASE stretch = "ULTRA_CONDENSED" -> 1
      [] stretch = "EXTRA_CONDENSED" -> 2
      [] stretch = "CONDENSED"       -> 3
      [] stretch = "SEMI_CONDENSED"  -> 4
      [] stretch = "NORMAL"          -> 5
      [] stretch = "SEMI_EXPANDED"   -> 6
      [] stretch = "EXPANDED"        -> 7
      [] stretch = "EXTRA_EXPANDED"  -> 8
      [] stretch = "ULTRA_EXPANDED"  -> 9
      [] OTHER                       -> 5

\* mutant: the height is computed as with ttf_parser's signed descender
SwashMetricsOfDifference(t) ==
    LET ascent  == F32(t.ascender)
        descent == F32(-t.descender)
        leading == F32(t.line_gap)
    IN  [ascender  |-> ascent,
         descender |-> FNeg(descent),
         height    |-> FAdd(FAdd(ascent, FNeg(descent)), leading),
         flags     |-> FontFlagsNew(t.weight = 400 /\ t.style = "Normal"
                                       /\ t.stretch = "NORMAL",
                                    t.style = "Italic", t.weight >= 700,
                                    t.style = "Oblique", t.variable),
         weight    |-> t.weight,
         width     |-> SwashWidth(t.stretch)]

\* mutant: a weight of exactly 700 does not count as bold
SwashMetricsOfBoldAbove(t) ==
    LET ascent  == F32(t.ascender)
        descent == F32(-t.descender)
        leading == F32(t.line_gap)
    IN  [ascender  |-> ascent,
         descender |-> FNeg(descent),
         height    |-> FAdd(FAdd(ascent, descent), leading),
         flags     |-> FontFlagsNew(t.weight = 400 /\ t.style = "Normal"
                                       /\ t.stretch = "NORMAL",
                                    t.style = "Italic", t.weight > 700,
                                    t.style = "Oblique", t.variable),
         weight    |-> t.weight,
         width     |-> SwashWidth(t.stretch)]

\* the FontMetrics built from what swash reports for a face: t
SwashMetricsOf(t) ==
    LET \* swash reports ascent and descent as positive distances
        ascent  == F32(t.ascender)
        descent == F32(-t.descender)
        leading == F32(t.line_gap)
        weight  == t.weight
        is_bold == weight >= 700
        is_italic  == t.style = "Italic"
        is_oblique == t.style = "Oblique"
        is_regular == weight = 400 /\ t.style = "Normal" /\ t.stretch = "NORMAL"
    IN  [ascender  |-> ascent,
         descender |-> FNeg(descent),
         height    |-> FAdd(FAdd(ascent, descent), leading),
         flags     |-> FontFlagsNew(is_regular, is_italic, is_bold, is_oblique, t.variable),
         weight    |-> weight,
         width     |-> SwashWidth(t.stretch)]

SwashMetrics(font_ref) == SwashMetricsOf(FaceTables(font_ref.file, font_ref.idx))

\* Result<Font, ErrorKind> of the swash new_with_data
NewFontSwash(file, idx) ==
    LET font_ref == SwashFontRef(file, idx)
    IN  IF font_ref = None THEN None
        ELSE Some([data         |-> file,
                   face_index   |-> idx,
                   units_per_em |-> FaceTables(file, idx).units_per_em,
                   metrics      |-> SwashMetrics(Unwrap(font_ref))])

\* mutant: the build without a backend accepts any file that has the face
NewFontNoneAccepts(file, idx) == NewFontSwash(file, idx)

\* Result<Font, ErrorKind> of new_with_data built with neither feature
NewFontNone(file, idx) == None

(***************************************************************************)
(* The RefCell around Font::glyphs (and around the ScaleContext) and the   *)
(* hash map inside it.                                                     *)
(***************************************************************************)
\* mutant: borrow_mut checked like borrow, so it passes while Refs are alive
BorrowMutIgnoresRefs(flag) == flag < 0

\* RefCell::borrow_mut panics unless the cell is unborrowed
BorrowMutPanics(flag) == flag # 0
\* RefCell::borrow panics while a RefMut is alive
BorrowPanics(flag) == flag < 0
RefMutNew(flag)  == flag - 1
\* mutant: the RefMut is never released
RefMutLeak(flag) == flag
RefMutDrop(flag) == flag + 1
RefNew(flag)     == flag + 1
RefDrop(flag)    == flag - 1

\* mutant: the lookup is treated as a miss every time
IsVacantAlways(map, codepoint) == TRUE

\* mutant: vacancy decided by the whole map instead of by the entry
IsVacantWhenEmpty(map, codepoint) == DOMAIN map = {}

\* Entry::Vacant(entry) = map.entry(codepoint)
IsVacant(map, codepoint) == codepoint \notin DOMAIN map

\* mutant: the insertion evicts the other entries
EntryInsertEvicting(map, codepoint, glyph) == [c \in {codepoint} |-> glyph]

\* mutant: the glyph is stored under the next glyph id
EntryInsertNextKey(map, codepoint, glyph) ==
    LET key == (codepoint + 1) % (MaxGlyphId + 1)
    IN  [c \in DOMAIN map \cup {key} |-> IF c = key THEN glyph ELSE map[c]]

\* entry.insert(glyph) on the vacant entry of codepoint
EntryInsert(map, codepoint, glyph) ==
    [c \in DOMAIN map \cup {codepoint} |-> IF c = codepoint THEN glyph ELSE map[c]]

\* glyphs.get(&codepoint)
MapGet(map, codepoint) ==
    IF codepoint \in DOMAIN map THEN Some(map[codepoint]) ELSE None

EmptyMap == [c \in {} |-> None]

\* mutant: a failed extraction is cached as an empty placeholder glyph
InsertPlaceholder(map, codepoint, maybe_glyph) ==
    EntryInsert(map, codepoint,
                IF IsSome(maybe_glyph) THEN Unwrap(maybe_glyph)
                ELSE [path |-> None,
                      metrics |-> [width |-> F32(0), height |-> F32(0),
                                   bearing_x |-> F32(0), bearing_y |-> F32(0)]])

\* if let Some(glyph) = maybe_glyph { entry.insert(glyph); }
InsertIfSome(map, codepoint, maybe_glyph) ==
    IF IsSome(maybe_glyph)
    THEN EntryInsert(map, codepoint, Unwrap(maybe_glyph))
    ELSE map

\* mutant: the Ref of a None result is never released
FilterMapLeak(flag, found) == flag

\* Ref::filter_map(ref, ..).ok(): the Ref lives on in a Some result; for a
\* None result filter_map hands the Ref back in Err and ok() drops it
FilterMapOk(flag, found) == IF IsSome(found) THEN flag ELSE RefDrop(flag)

(***************************************************************************)
(* Backend extraction.                                                     *)
(***************************************************************************)
\* ttf_parser glyph_raster_image(id, pixels_per_em): the smallest strike of
\* the glyph that is at least pixels_per_em, else the largest one
GlyphRasterImage(face, id, pixels_per_em) ==
    LET all == StrikesOf(face.file, id)
        big == {s \in all : s.pixels_per_em >= pixels_per_em}
    IN  IF all = {} THEN None
        ELSE IF big # {}
             THEN Some(CHOOSE s \in big : \A o \in big : s.pixels_per_em <= o.pixels_per_em)
             ELSE Some(CHOOSE s \in all : \A o \in all : s.pixels_per_em >= o.pixels_per_em)

\* ttf_parser outline_glyph(id, &mut path): the bounding box, the path filled in
OutlineGlyph(face, id) ==
    IF HasOutline(face.file, id) THEN Some(OutlineOf(face.file, id)) ELSE None

\* swash scaler.scale_outline(codepoint), the scaler built at size units_per_em
ScaleOutline(font_ref, codepoint) ==
    IF HasOutline(font_ref.file, codepoint)
    THEN Some(OutlineOf(font_ref.file, codepoint))
    ELSE None

\* mutant: the decoder accepts the bytes of any strike
LoadPngUnchecked(file, id, image) == Some(<< file, id, image.pixels_per_em >>)

\* image::load_from_memory_with_format(data, Png).ok()
LoadPng(file, id, image) ==
    IF image.decodable
    THEN Some(<< file, id, image.pixels_per_em >>)
    ELSE None

U16Max == 65535

\* mutant: the scale is computed without looking at pixels_per_em
StrikeGlyphDividing(units_per_em, image) ==
    LET scale == FDiv(F32(units_per_em), F32(image.pixels_per_em))
    IN  [path    |-> None,
         metrics |-> [width     |-> FMul(F32(image.width), scale),
                      height    |-> FMul(F32(image.height), scale),
                      bearing_x |-> FMul(F32(image.x), scale),
                      bearing_y |-> FMul(FAdd(F32(image.y), F32(image.height)), scale)]]

\* the Glyph built from a PNG raster strike (path: None)
StrikeGlyph(units_per_em, image) ==
    LET scale == IF image.pixels_per_em # 0
                 THEN FDiv(F32(units_per_em), F32(image.pixels_per_em))
                 ELSE F32(1)
    IN  [path    |-> None,
         metrics |-> [width     |-> FMul(F32(image.width), scale),
                      height    |-> FMul(F32(image.height), scale),
                      bearing_x |-> FMul(F32(image.x), scale),
                      bearing_y |-> FMul(FAdd(F32(image.y), F32(image.height)), scale)]]

\* the Glyph built from an outline and its bounding box
OutlineGlyphOf(outline) ==
    LET bbox == outline.bbox
    IN  [path    |-> Some(outline.path),
         metrics |-> [width     |-> F32(bbox.x_max - bbox.x_min),
                      height    |-> F32(bbox.y_max - bbox.y_min),
                      bearing_x |-> F32(bbox.x_min),
                      bearing_y |-> F32(bbox.y_max)]]

\* mutant: the outline is extracted first and the raster strike is consulted
\* only when there is no outline
TextlayoutMaybeGlyphOutlineFirst(face, units_per_em, codepoint) ==
    LET bbox   == OutlineGlyph(face, codepoint)
        raster == GlyphRasterImage(face, codepoint, U16Max)
        png    == IF IsSome(raster) /\ Unwrap(raster).format = "PNG" THEN raster ELSE None
    IN  IF IsSome(bbox)
        THEN [glyph |-> Some(OutlineGlyphOf(Unwrap(bbox))), raster |-> 0, outline |-> 1]
        ELSE [glyph |-> IF IsSome(png) THEN Some(StrikeGlyph(units_per_em, Unwrap(png)))
                        ELSE None,
              raster |-> 1, outline |-> 1]

\* mutant: a strike of any format is taken for the glyph
TextlayoutMaybeGlyphAnyFormat(face, units_per_em, codepoint) ==
    LET raster == GlyphRasterImage(face, codepoint, U16Max)
    IN  IF IsSome(raster)
        THEN [glyph |-> Some(StrikeGlyph(units_per_em, Unwrap(raster))),
              raster |-> 1, outline |-> 0]
        ELSE LET bbox == OutlineGlyph(face, codepoint)
             IN  [glyph |-> IF IsSome(bbox) THEN Some(OutlineGlyphOf(Unwrap(bbox))) ELSE None,
                  raster |-> 1, outline |-> 1]

\* maybe_glyph of the textlayout glyph(), with the backend calls it made
TextlayoutMaybeGlyph(face, units_per_em, codepoint) ==
    LET raster == GlyphRasterImage(face, codepoint, U16Max)
        png    == IF IsSome(raster) /\ Unwrap(raster).format = "PNG" THEN raster ELSE None
    IN  IF IsSome(png)
        THEN [glyph |-> Some(StrikeGlyph(units_per_em, Unwrap(png))),
              raster |-> 1, outline |-> 0]
        ELSE LET bbox == OutlineGlyph(face, codepoint)
             IN  [glyph |-> IF IsSome(bbox) THEN Some(OutlineGlyphOf(Unwrap(bbox))) ELSE None,
                  raster |-> 1, outline |-> 1]

\* mutant: the outline's bounds are kept but its path is not
SwashMaybeGlyphPathless(font_ref, codepoint) ==
    LET outline == ScaleOutline(font_ref, codepoint)
    IN  [glyph |-> IF IsSome(outline)
                   THEN Some([OutlineGlyphOf(Unwrap(outline)) EXCEPT !.path = None])
                   ELSE None,
         raster |-> 0, outline |-> 1]

\* maybe_glyph of the swash glyph(), with the backend calls it made
SwashMaybeGlyph(font_ref, codepoint) ==
    LET outline == ScaleOutline(font_ref, codepoint)
    IN  [glyph |-> IF IsSome(outline) THEN Some(OutlineGlyphOf(Unwrap(outline))) ELSE None,
         raster |-> 0, outline |-> 1]

(***************************************************************************)
(* Font methods.  A lookup is described by its outcome: whether it         *)
(* panicked, the cache and the borrow flags it leaves, what it returned    *)
(* and the backend extraction calls it made.                               *)
(***************************************************************************)
Font(f) == Unwrap(fonts[f])

\* Font::scale
FontScale(f, size) == FDiv(F32(size), F32(Font(f).units_per_em))

\* Font::metrics
FontMetrics(f, size) == MetricsScale(Font(f).metrics, FontScale(f, size))

\* mutant: the bytes are parsed again at the face after the stored index
FaceRefNextIndex(f) == TtfParse(Font(f).data, Font(f).face_index + 1)

\* Font::face_ref (textlayout): the stored bytes parsed again, unwrapped
FaceRef(f) == TtfParse(Font(f).data, Font(f).face_index)

\* Font::swash_font_ref
SwashFontRefOf(f) == SwashFontRef(Font(f).data, Font(f).face_index)

Panicked(f) ==
    [panicked |-> TRUE, glyphs |-> glyphs[f], borrow |-> borrow[f],
     ctx |-> scale_context.borrow, result |-> None, raster |-> 0, outline |-> 0]

\* the tail of glyph(): Ref::filter_map(self.glyphs.borrow(), |m| m.get(&codepoint)).ok()
GlyphLookup(f, map, flag, ctx, codepoint, raster, outline) ==
    IF BorrowPanics(flag)
    THEN [Panicked(f) EXCEPT !.raster = raster, !.outline = outline]
    ELSE LET found == MapGet(map, codepoint)
             ref   == RefNew(flag)
         IN  [panicked |-> FALSE,
              glyphs   |-> map,
              borrow   |-> FilterMapOk(ref, found),
              ctx      |-> ctx,
              result   |-> found,
              raster   |-> raster,
              outline  |-> outline]

\* Font::glyph, textlayout variant
FontGlyphTextlayout(f, face, codepoint) ==
    IF BorrowMutPanics(borrow[f]) THEN Panicked(f)
    ELSE LET writing == RefMutNew(borrow[f])
             vacant  == IsVacant(glyphs[f], codepoint)
             ext     == IF vacant
                        THEN TextlayoutMaybeGlyph(face, Font(f).units_per_em, codepoint)
                        ELSE [glyph |-> None, raster |-> 0, outline |-> 0]
             map     == IF vacant
                        THEN InsertIfSome(glyphs[f], codepoint, ext.glyph)
                        ELSE glyphs[f]
         IN  GlyphLookup(f, map, RefMutDrop(writing), scale_context.borrow,
                         codepoint, ext.raster, ext.outline)

\* mutant: the RefMut of the scale context outlives the extraction
ScaleContextKept(flag) == flag

\* the `scale_context` guard goes out of scope at the end of the if-let block
ScaleContextDrop(flag) == RefMutDrop(flag)

\* Font::glyph, swash variant
FontGlyphSwash(f, codepoint) ==
    IF BorrowMutPanics(borrow[f]) THEN Panicked(f)
    ELSE LET writing  == RefMutNew(borrow[f])
             vacant   == IsVacant(glyphs[f], codepoint)
             font_ref == SwashFontRefOf(f)
         IN  IF ~vacant
             THEN GlyphLookup(f, glyphs[f], RefMutDrop(writing), scale_context.borrow,
                              codepoint, 0, 0)
             ELSE IF font_ref = None
             THEN \* `?`: returns None, the RefMut is dropped on the way out
                  [panicked |-> FALSE, glyphs |-> glyphs[f],
                   borrow |-> RefMutDrop(writing), ctx |-> scale_context.borrow,
                   result |-> None, raster |-> 0, outline |-> 0]
             ELSE IF BorrowMutPanics(scale_context.borrow) THEN Panicked(f)
             ELSE LET scaling == RefMutNew(scale_context.borrow)
                      ext     == SwashMaybeGlyph(Unwrap(font_ref), codepoint)
                      map     == InsertIfSome(glyphs[f], codepoint, ext.glyph)
                  IN  GlyphLookup(f, map, RefMutDrop(writing), ScaleContextDrop(scaling),
                                  codepoint, ext.raster, ext.outline)

\* Font::glyph built with neither feature
FontGlyphNone(f, codepoint) ==
    [panicked |-> FALSE, glyphs |-> glyphs[f], borrow |-> borrow[f],
     ctx |-> scale_context.borrow, result |-> None, raster |-> 0, outline |-> 0]

RenderAsPath(path) == [kind |-> "RenderAsPath", payload |-> path]
RenderAsImage(image) == [kind |-> "RenderAsImage", payload |-> image]

\* mutant: the glyph is mapped to RenderAsPath without filtering on its path
PathRenderingUnfiltered(out, selector_raster, decodes) ==
    [panicked        |-> out.panicked,
     glyphs          |-> out.glyphs,
     borrow          |-> out.borrow,
     ctx             |-> out.ctx,
     result          |-> IF ~out.panicked /\ IsSome(out.result)
                         THEN Some(RenderAsPath(Unwrap(out.result).path))
                         ELSE None,
     glyph_called    |-> TRUE,
     glyph_result    |-> out.result,
     raster          |-> out.raster,
     outline         |-> out.outline,
     selector_raster |-> selector_raster,
     decodes         |-> decodes]

\* the delegation shared by both glyph_rendering_representation variants:
\* self.glyph(..).and_then(|glyph| Ref::filter_map(glyph, |g| g.path.as_ref()).ok().map(RenderAsPath))
PathRendering(out, selector_raster, decodes) ==
    LET has_path == ~out.panicked /\ IsSome(out.result) /\ IsSome(Unwrap(out.result).path)
    IN  [panicked        |-> out.panicked,
         glyphs          |-> out.glyphs,
         \* a glyph Ref without a path is dropped by ok()
         borrow          |-> IF ~out.panicked /\ IsSome(out.result)
                             THEN FilterMapOk(out.borrow, Unwrap(out.result).path)
                             ELSE out.borrow,
         ctx             |-> out.ctx,
         result          |-> IF has_path
                             THEN Some(RenderAsPath(Unwrap(Unwrap(out.result).path)))
                             ELSE None,
         glyph_called    |-> TRUE,
         glyph_result    |-> out.result,
         raster          |-> out.raster,
         outline         |-> out.outline,
         selector_raster |-> selector_raster,
         decodes         |-> decodes]

\* mutant: the cached glyph's path is preferred and the raster strike is
\* decoded only when glyph() gives no path
FontRenderingPathFirst(f, face, codepoint, pixels_per_em) ==
    LET path   == PathRendering(FontGlyphTextlayout(f, face, codepoint), 0, 0)
        raster == IF imageLoading
                  THEN GlyphRasterImage(face, codepoint, pixels_per_em)
                  ELSE None
        image  == IF IsSome(raster)
                  THEN LoadPng(face.file, codepoint, Unwrap(raster))
                  ELSE None
    IN  IF path.panicked \/ IsSome(path.result) \/ image = None
        THEN path
        ELSE [path EXCEPT !.result = Some(RenderAsImage(Unwrap(image))),
                          !.selector_raster = 1, !.decodes = 1]

\* mutant: the image is handed out under a Ref of the glyph cache
FontRenderingImageBorrows(f, face, codepoint, pixels_per_em) ==
    LET raster == IF imageLoading
                  THEN GlyphRasterImage(face, codepoint, pixels_per_em)
                  ELSE None
        image  == IF IsSome(raster)
                  THEN LoadPng(face.file, codepoint, Unwrap(raster))
                  ELSE None
        looked  == IF imageLoading THEN 1 ELSE 0
        decoded == IF IsSome(raster) THEN 1 ELSE 0
    IN  IF IsSome(image)
        THEN [panicked |-> FALSE, glyphs |-> glyphs[f],
              borrow |-> IF borrow[f] >= 0 THEN RefNew(borrow[f]) ELSE borrow[f],
              ctx |-> scale_context.borrow,
              result |-> Some(RenderAsImage(Unwrap(image))),
              glyph_called |-> FALSE, glyph_result |-> None,
              raster |-> 0, outline |-> 0,
              selector_raster |-> looked, decodes |-> decoded]
        ELSE PathRendering(FontGlyphTextlayout(f, face, codepoint), looked, decoded)

\* Font::glyph_rendering_representation, textlayout variant
FontRenderingTextlayout(f, face, codepoint, pixels_per_em) ==
    LET raster == IF imageLoading
                  THEN GlyphRasterImage(face, codepoint, pixels_per_em)
                  ELSE None
        image  == IF IsSome(raster)
                  THEN LoadPng(face.file, codepoint, Unwrap(raster))
                  ELSE None
        looked  == IF imageLoading THEN 1 ELSE 0
        decoded == IF IsSome(raster) THEN 1 ELSE 0
    IN  IF IsSome(image)
        THEN [panicked |-> FALSE, glyphs |-> glyphs[f], borrow |-> borrow[f],
              ctx |-> scale_context.borrow,
              result |-> Some(RenderAsImage(Unwrap(image))),
              glyph_called |-> FALSE, glyph_result |-> None,
              raster |-> 0, outline |-> 0,
              selector_raster |-> looked, decodes |-> decoded]
        ELSE PathRendering(FontGlyphTextlayout(f, face, codepoint), looked, decoded)

\* Font::glyph_rendering_representation, variant without textlayout
FontRenderingOther(f, codepoint, pixels_per_em) ==
    PathRendering(IF backend = "swash" THEN FontGlyphSwash(f, codepoint)
                  ELSE FontGlyphNone(f, codepoint), 0, 0)

(***************************************************************************)
(* The state machine.                                                      *)
(***************************************************************************)
NoCall ==
    [op |-> "none", font |-> 0, file |-> "", arg |-> 0, gid |-> 0,
     result |-> None, panicked |-> FALSE, ref_held |-> FALSE, cached |-> FALSE,
     queried |-> FALSE, glyphs_before |-> EmptyMap,
     glyph_called |-> FALSE, glyph_result |-> None, raster |-> 0, outline |-> 0,
     selector_raster |-> 0, decodes |-> 0, height |-> None]

Init ==
    /\ backend \in Backends
    /\ imageLoading \in (IF backend = "textlayout" THEN BOOLEAN ELSE {FALSE})
    /\ fonts = [f \in Fonts |-> None]
    /\ glyphs = [f \in Fonts |-> EmptyMap]
    /\ borrow = [f \in Fonts |-> 0]
    /\ scale_context = [strong |-> IF backend = "swash" THEN 1 ELSE 0, borrow |-> 0]
    /\ held = [f \in Fonts |-> None]
    /\ call = NoCall
    /\ first = [f \in Fonts |-> [g \in GlyphIds |-> None]]
    /\ aborted = FALSE

\* the caller registers font bytes: Font::new_with_data returns Ok(font) or
\* Err(ErrorKind::FontParseError)
Construct(f, file, idx, made) ==
    /\ ~aborted
    /\ fonts[f] = None
    /\ \A e \in Fonts : e < f => IsSome(fonts[e])
    /\ fonts' = [fonts EXCEPT ![f] = made]
    /\ glyphs' = [glyphs EXCEPT ![f] = EmptyMap]
    /\ borrow' = [borrow EXCEPT ![f] = 0]
    /\ call' = [NoCall EXCEPT !.op = "new_with_data", !.font = f, !.file = file,
                              !.arg = idx,
                              !.result = IF IsSome(made) THEN "Ok" ELSE "FontParseError"]
    /\ UNCHANGED << backend, imageLoading, held, first, aborted >>

\* mutant: the shared context is cloned before the font bytes are parsed and
\* the clone is kept when parsing fails
SwashScaleContextEager(ctx, made) == [ctx EXCEPT !.strong = @ + 1]

\* text_context.swash_scale_context(): one more Rc to the shared context,
\* taken in the Ok(Self { .. }) expression, past both `?`
SwashScaleContext(ctx, made) ==
    IF IsSome(made) THEN [ctx EXCEPT !.strong = @ + 1] ELSE ctx

NewWithDataTextlayout(f, file, idx) ==
    /\ backend = "textlayout"
    /\ Construct(f, file, idx, NewFontTextlayout(file, idx))
    /\ UNCHANGED scale_context

NewWithDataSwash(f, file, idx) ==
    /\ backend = "swash"
    /\ Construct(f, file, idx, NewFontSwash(file, idx))
    /\ scale_context' = SwashScaleContext(scale_context, NewFontSwash(file, idx))

NewWithDataNone(f, file, idx) ==
    /\ backend = "none"
    /\ Construct(f, file, idx, NewFontNone(file, idx))
    /\ UNCHANGED scale_context

Metrics(f, size) ==
    /\ ~aborted
    /\ IsSome(fonts[f])
    \* result: the FontMetrics returned; height: what its height() gives
    /\ call' = [NoCall EXCEPT !.op = "metrics", !.font = f, !.arg = size,
                              !.result = FontMetrics(f, size),
                              !.height = Some(MetricsHeight(FontMetrics(f, size)))]
    /\ UNCHANGED << backend, imageLoading, fonts, glyphs, borrow, scale_context,
                    held, first, aborted >>

Scale(f, size) ==
    /\ ~aborted
    /\ IsSome(fonts[f])
    /\ call' = [NoCall EXCEPT !.op = "scale", !.font = f, !.arg = size,
                              !.result = FontScale(f, size)]
    /\ UNCHANGED << backend, imageLoading, fonts, glyphs, borrow, scale_context,
                    held, first, aborted >>

\* mutant: all Fonts keep their glyphs behind one RefCell
LookupSharedCell(f, op, codepoint, arg, out, kind, glyph_called, glyph_result) ==
    /\ glyphs' = [glyphs EXCEPT ![f] = out.glyphs]
    /\ borrow' = [e \in Fonts |-> out.borrow]
    /\ scale_context' = [scale_context EXCEPT !.borrow = out.ctx]
    /\ aborted' = out.panicked
    /\ held' = IF ~out.panicked /\ IsSome(out.result) /\ kind # ""
               THEN [held EXCEPT ![f] = Some(codepoint)]
               ELSE held
    /\ first' = IF glyph_called /\ ~out.panicked /\ first[f][codepoint] = None
                THEN [first EXCEPT ![f][codepoint] = Some(glyph_result)]
                ELSE first
    /\ call' = [op |-> op, font |-> f, file |-> Font(f).data, arg |-> arg,
                gid |-> codepoint, result |-> out.result, panicked |-> out.panicked,
                ref_held |-> IsSome(held[f]),
                cached |-> codepoint \in DOMAIN glyphs[f],
                queried |-> IsSome(first[f][codepoint]),
                glyphs_before |-> glyphs[f],
                glyph_called |-> glyph_called, glyph_result |-> glyph_result,
                raster |-> out.raster, outline |-> out.outline,
                selector_raster |-> IF op = "glyph" THEN 0 ELSE out.selector_raster,
                decodes |-> IF op = "glyph" THEN 0 ELSE out.decodes,
                height |-> None]
    /\ UNCHANGED << backend, imageLoading, fonts >>

\* the state a lookup with outcome out leaves behind; kind is the Ref the
\* caller receives when the result is Some ("" when it borrows nothing)
Lookup(f, op, codepoint, arg, out, kind, glyph_called, glyph_result) ==
    /\ glyphs' = [glyphs EXCEPT ![f] = out.glyphs]
    /\ borrow' = [borrow EXCEPT ![f] = out.borrow]
    /\ scale_context' = [scale_context EXCEPT !.borrow = out.ctx]
    /\ aborted' = out.panicked
    /\ held' = IF ~out.panicked /\ IsSome(out.result) /\ kind # ""
               THEN [held EXCEPT ![f] = Some(codepoint)]
               ELSE held
    /\ first' = IF glyph_called /\ ~out.panicked /\ first[f][codepoint] = None
                THEN [first EXCEPT ![f][codepoint] = Some(glyph_result)]
                ELSE first
    /\ call' = [op |-> op, font |-> f, file |-> Font(f).data, arg |-> arg,
                gid |-> codepoint, result |-> out.result, panicked |-> out.panicked,
                ref_held |-> IsSome(held[f]),
                cached |-> codepoint \in DOMAIN glyphs[f],
                queried |-> IsSome(first[f][codepoint]),
                glyphs_before |-> glyphs[f],
                glyph_called |-> glyph_called, glyph_result |-> glyph_result,
                raster |-> out.raster, outline |-> out.outline,
                selector_raster |-> IF op = "glyph" THEN 0 ELSE out.selector_raster,
                decodes |-> IF op = "glyph" THEN 0 ELSE out.decodes,
                height |-> None]
    /\ UNCHANGED << backend, imageLoading, fonts >>

\* let face = font.face_ref(); font.glyph(&face, codepoint)
GlyphTextlayout(f, codepoint) ==
    /\ ~aborted
    /\ backend = "textlayout"
    /\ IsSome(fonts[f])
    /\ IF FaceRef(f) = None
       THEN /\ aborted' = TRUE
            /\ UNCHANGED << backend, imageLoading, fonts, glyphs, borrow,
                            scale_context, held, call, first >>
       ELSE LET out == FontGlyphTextlayout(f, Unwrap(FaceRef(f)), codepoint)
            IN  Lookup(f, "glyph", codepoint, 0, out, "Glyph", TRUE, out.result)

GlyphSwash(f, codepoint) ==
    /\ ~aborted
    /\ backend = "swash"
    /\ IsSome(fonts[f])
    /\ LET out == FontGlyphSwash(f, codepoint)
       IN  Lookup(f, "glyph", codepoint, 0, out, "Glyph", TRUE, out.result)

GlyphRenderingTextlayout(f, codepoint, pixels_per_em) ==
    /\ ~aborted
    /\ backend = "textlayout"
    /\ IsSome(fonts[f])
    /\ IF FaceRef(f) = None
       THEN /\ aborted' = TRUE
            /\ UNCHANGED << backend, imageLoading, fonts, glyphs, borrow,
                            scale_context, held, call, first >>
       ELSE LET out == FontRenderingTextlayout(f, Unwrap(FaceRef(f)), codepoint,
                                               pixels_per_em)
            IN  Lookup(f, "glyph_rendering_representation", codepoint, pixels_per_em,
                       out,
                       IF IsSome(out.result) /\ Unwrap(out.result).kind = "RenderAsPath"
                       THEN "Path" ELSE "",
                       out.glyph_called, out.glyph_result)

GlyphRenderingOther(f, codepoint, pixels_per_em) ==
    /\ ~aborted
    /\ backend # "textlayout"
    /\ IsSome(fonts[f])
    /\ LET out == FontRenderingOther(f, codepoint, pixels_per_em)
       IN  Lookup(f, "glyph_rendering_representation", codepoint, pixels_per_em,
                  out, "Path", out.glyph_called, out.glyph_result)

\* the caller drops the Ref<Glyph> or the RenderAsPath it holds
DropRef(f) ==
    /\ ~aborted
    /\ IsSome(held[f])
    /\ held' = [held EXCEPT ![f] = None]
    /\ borrow' = [borrow EXCEPT ![f] = RefDrop(@)]
    /\ call' = [NoCall EXCEPT !.op = "drop", !.font = f, !.gid = Unwrap(held[f])]
    /\ UNCHANGED << backend, imageLoading, fonts, glyphs, scale_context, first, aborted >>

Next ==
    \/ \E f \in Fonts, file \in FontFiles, idx \in FaceIndices :
          NewWithDataTextlayout(f, file, idx)
    \/ \E f \in Fonts, file \in FontFiles, idx \in FaceIndices :
          NewWithDataSwash(f, file, idx)
    \/ \E f \in Fonts, file \in FontFiles, idx \in FaceIndices :
          NewWithDataNone(f, file, idx)
    \/ \E f \in Fonts, size \in Sizes : Metrics(f, size)
    \/ \E f \in Fonts, size \in Sizes : Scale(f, size)
    \/ \E f \in Fonts, g \in GlyphIds : GlyphTextlayout(f, g)
    \/ \E f \in Fonts, g \in GlyphIds : GlyphSwash(f, g)
    \/ \E f \in Fonts, g \in GlyphIds, ppem \in PixelsPerEm :
          GlyphRenderingTextlayout(f, g, ppem)
    \/ \E f \in Fonts, g \in GlyphIds, ppem \in PixelsPerEm :
          GlyphRenderingOther(f, g, ppem)
    \/ \E f \in Fonts : DropRef(f)

Spec == Init /\ [][Next]_vars

(***************************************************************************)
(* Properties.                                                             *)
(***************************************************************************)
IsLookup == call.op \in {"glyph", "glyph_rendering_representation"}

\* glyph() ran, directly or delegated to by glyph_rendering_representation,
\* and returned
GlyphReturned == IsLookup /\ call.glyph_called /\ ~call.panicked

\* the font file holds no geometry the active backend's glyph() can use for
\* glyph id g: no outline and (textlayout) no PNG strike at the largest size
NoGeometry(file, g) ==
    /\ ~HasOutline(file, g)
    /\ \/ backend # "textlayout"
       \/ ~\E s \in StrikesOf(file, g) :
              /\ s.format = "PNG"
              /\ \A o \in StrikesOf(file, g) : o.pixels_per_em <= s.pixels_per_em

\* what glyph() returns for glyph id g of font f when nothing is cached
FreshGlyph(f, g) ==
    IF backend = "textlayout"
    THEN TextlayoutMaybeGlyph([file |-> Font(f).data, idx |-> Font(f).face_index],
                              Font(f).units_per_em, g).glyph
    ELSE IF backend = "swash"
    THEN SwashMaybeGlyph([file |-> Font(f).data, idx |-> Font(f).face_index], g).glyph
    ELSE None

\* C1: the glyph cache is append-only: no step of any operation removes an
\* entry or changes the Glyph stored under a glyph id
C1_CacheAppendOnly ==
    [][\A f \in Fonts : \A g \in DOMAIN glyphs[f] :
          g \in DOMAIN glyphs'[f] /\ glyphs'[f][g] = glyphs[f][g]]_vars

\* a lookup missed and inserted an entry into a cache that held another one
C1_Witness ==
    /\ IsLookup /\ ~call.cached
    /\ call.gid \in DOMAIN glyphs[call.font]
    /\ \E g \in DOMAIN call.glyphs_before : g # call.gid

\* C2 as stated: a glyph() call for an id that was queried before makes no
\* backend extraction call
C2_SecondQueryNoExtraction ==
    (GlyphReturned /\ call.queried) => call.raster + call.outline = 0

\* C2 amended: a glyph() call for an id whose first query returned a glyph
\* makes no backend extraction call
C2_SecondQueryOfFoundGlyphNoExtraction ==
    (IsLookup /\ call.glyph_called /\ call.queried
       /\ IsSome(Unwrap(first[call.font][call.gid])))
    => call.raster + call.outline = 0

\* a second query of a found glyph, after another glyph id was looked up
C2_Witness ==
    /\ GlyphReturned /\ call.op = "glyph" /\ call.queried
    /\ IsSome(call.result)
    /\ \E g \in GlyphIds : g # call.gid /\ IsSome(first[call.font][g])

\* C3: every glyph(g) call that returns gives the result of the first
\* glyph(g) call on that font, which is the result on an empty cache,
\* whatever was looked up before
C3_GlyphIdempotent ==
    GlyphReturned =>
        /\ call.glyph_result = Unwrap(first[call.font][call.gid])
        /\ call.glyph_result = FreshGlyph(call.font, call.gid)

\* a repeated glyph(g) on a cache that also holds another glyph id
C3_Witness ==
    /\ GlyphReturned /\ call.queried /\ call.cached
    /\ IsSome(call.glyph_result)
    /\ \E g \in DOMAIN glyphs[call.font] : g # call.gid

\* C4: when the font holds no geometry for g, glyph(g) returns None, leaves
\* the cache as it was, without an entry for g, and calls the backend
\* extraction in every such call, the first and the later ones
C4_NoNegativeCaching ==
    (GlyphReturned /\ NoGeometry(call.file, call.gid)) =>
        /\ call.glyph_result = None
        /\ glyphs[call.font] = call.glyphs_before
        /\ call.gid \notin DOMAIN glyphs[call.font]
        /\ call.outline >= 1

\* a later glyph(g) for a glyph id the backend has no geometry for
C4_Witness ==
    /\ GlyphReturned /\ call.op = "glyph" /\ call.queried
    /\ NoGeometry(call.file, call.gid)
    /\ call.result = None

\* C5 as stated: a lookup made while a Ref of that font is held aborts
\* before any backend extraction and leaves the cache unchanged
C5_FailFastBeforeAnyExtraction ==
    (IsLookup /\ call.ref_held) =>
        /\ call.panicked
        /\ call.raster + call.outline + call.selector_raster = 0
        /\ glyphs[call.font] = call.glyphs_before

\* C5 amended: a lookup made while a Ref of that font is held never changes
\* the cache, never runs glyph()'s extraction and never returns a glyph or a
\* path; glyph() always aborts; glyph_rendering_representation aborts too,
\* except that with textlayout and image-loading it first looks the raster
\* strike up and returns the image when the strike decodes
C5_FailFastOrImage ==
    (IsLookup /\ call.ref_held) =>
        /\ glyphs[call.font] = call.glyphs_before
        /\ call.raster + call.outline = 0
        /\ call.op = "glyph" => call.panicked
        /\ ~call.panicked =>
              /\ backend = "textlayout" /\ imageLoading
              /\ IsSome(call.result)
              /\ Unwrap(call.result).kind = "RenderAsImage"
        /\ call.selector_raster > 0 => (backend = "textlayout" /\ imageLoading)

\* glyph() aborted on a cached glyph id because a Ref was still held
C5_Witness ==
    /\ IsLookup /\ call.op = "glyph"
    /\ call.ref_held /\ call.cached /\ call.panicked

\* C6 as stated: no lookup panics, and every glyph id the backend can
\* produce is found
C6_LookupsNeverPanic ==
    IsLookup =>
        /\ ~call.panicked
        /\ (call.glyph_called /\ ~NoGeometry(call.file, call.gid))
              => IsSome(call.glyph_result)

\* C6 amended: a lookup made while no Ref of that font is held never
\* panics, and it finds every glyph id the backend can produce, also after
\* lookups that returned none
C6_ReleasedLookupsNeverPanic ==
    (IsLookup /\ ~call.ref_held) =>
        /\ ~call.panicked
        /\ (call.glyph_called /\ ~NoGeometry(call.file, call.gid))
              => IsSome(call.glyph_result)

\* a lookup succeeded after a lookup of another glyph id returned none
C6_Witness ==
    /\ IsLookup /\ ~call.ref_held /\ ~call.panicked
    /\ IsSome(call.result)
    /\ \E g \in GlyphIds : g # call.gid /\ first[call.font][g] = Some(None)

\* C7: between calls no RefMut of a cache or of the scale context is alive
\* and a cache is borrowed exactly by the Ref the caller holds; so a
\* glyph() call made after the earlier Ref was released never panics,
\* returns the glyph when the font has one, and leaves the entries that
\* were cached before as they were
C7_SequentialCallsSucceed ==
    /\ \A f \in Fonts : borrow[f] = (IF IsSome(held[f]) THEN 1 ELSE 0)
    /\ scale_context.borrow = 0
    /\ (IsLookup /\ call.op = "glyph" /\ ~call.ref_held) =>
          /\ ~call.panicked
          /\ ~NoGeometry(call.file, call.gid) => IsSome(call.result)
          /\ \A g \in DOMAIN call.glyphs_before :
                /\ g \in DOMAIN glyphs[call.font]
                /\ glyphs[call.font][g] = call.glyphs_before[g]

\* the second of two glyph() calls for distinct glyph ids returned a newly
\* extracted glyph after the first Ref was released
C7_Witness ==
    /\ IsLookup /\ call.op = "glyph"
    /\ ~call.ref_held /\ ~call.panicked /\ ~call.cached
    /\ IsSome(call.result)
    /\ \E g \in DOMAIN call.glyphs_before :
          g # call.gid /\ first[call.font][g] = Some(Some(glyphs[call.font][g]))

\* C8: no step changes the data, face index, units_per_em or metrics of a
\* constructed Font; a cache changes only in a lookup of an uncached glyph
\* id on that font, and then by at most the entry of that glyph id
C8_OnlyCacheMissMutates ==
    [][/\ \A f \in Fonts : IsSome(fonts[f]) => fonts'[f] = fonts[f]
       /\ \A f \in Fonts :
             /\ DOMAIN glyphs[f] \subseteq DOMAIN glyphs'[f]
             /\ \A g \in DOMAIN glyphs[f] : glyphs'[f][g] = glyphs[f][g]
             /\ (DOMAIN glyphs'[f] \ DOMAIN glyphs[f]) \subseteq
                   (IF /\ call'.op \in {"glyph", "glyph_rendering_representation"}
                       /\ call'.font = f
                       /\ call'.gid \notin DOMAIN glyphs[f]
                    THEN {call'.gid} ELSE {})]_vars

\* a glyph() call on an uncached glyph id added exactly its entry while a
\* second font existed
C8_Witness ==
    /\ IsLookup /\ call.op = "glyph" /\ ~call.cached
    /\ DOMAIN glyphs[call.font] = DOMAIN call.glyphs_before \cup {call.gid}
    /\ \A f \in Fonts : IsSome(fonts[f])

\* C9: every constructed Font has units_per_em > 0, so scale() never
\* divides by zero
C9_UnitsPerEmPositive ==
    /\ \A f \in Fonts : IsSome(fonts[f]) => Font(f).units_per_em > 0
    /\ call.op = "scale" => IsFinite(call.result)

\* the bytes hold no face of the requested index (garbage, truncated, or
\* index out of range)
Unparsable(file, idx) == NumFaces(file) <= idx

\* C10: new_with_data on bytes the backend cannot parse returns
\* FontParseError as a value: no Font is made and the process goes on
C10_UnparsableIsError ==
    (call.op = "new_with_data" /\ Unparsable(call.file, call.arg)) =>
        /\ call.result = "FontParseError"
        /\ fonts[call.font] = None
        /\ ~aborted

\* garbage bytes were rejected after a font had been constructed
C10_Witness ==
    /\ call.op = "new_with_data" /\ call.file = "garbage"
    /\ call.result = "FontParseError"
    /\ backend # "none"
    /\ \E f \in Fonts : IsSome(fonts[f])

\* C11: built with neither backend, new_with_data returns FontParseError for
\* every buffer and every face index, so that no Font ever exists
C11_NoBackendNeverConstructs ==
    backend = "none" =>
        /\ \A f \in Fonts : fonts[f] = None /\ glyphs[f] = EmptyMap
        /\ call.op = "new_with_data" => call.result = "FontParseError"
        /\ call.op \in {"none", "new_with_data"}

\* a file both backends would accept was refused
C11_Witness ==
    /\ backend = "none"
    /\ call.op = "new_with_data"
    /\ call.file = "text"
    /\ call.arg = 0
    /\ call.result = "FontParseError"

\* C12: construction is atomic: a successful new_with_data yields a Font
\* whose bytes, face index, units per em and metrics are populated and whose
\* glyph cache is empty; a failed one yields no Font and leaves every
\* earlier Font (fields and cache) and the reference count of the shared
\* scale context as they were
C12_ConstructionAtomic ==
    [][call'.op = "new_with_data" =>
          LET f    == call'.font
              file == call'.file
              idx  == call'.arg
          IN  /\ call'.result \in {"Ok", "FontParseError"}
              /\ \A e \in Fonts \ {f} :
                    /\ fonts'[e] = fonts[e]
                    /\ glyphs'[e] = glyphs[e]
                    /\ borrow'[e] = borrow[e]
                    /\ held'[e] = held[e]
              /\ call'.result = "Ok" =>
                    /\ fonts[f] = None
                    /\ IsSome(fonts'[f])
                    /\ Unwrap(fonts'[f]).data = file
                    /\ Unwrap(fonts'[f]).face_index = idx
                    /\ Unwrap(fonts'[f]).units_per_em = FaceTables(file, idx).units_per_em
                    /\ Unwrap(fonts'[f]).metrics.ascender = F32(FaceTables(file, idx).ascender)
                    /\ Unwrap(fonts'[f]).metrics.descender = F32(FaceTables(file, idx).descender)
                    /\ Unwrap(fonts'[f]).metrics.weight = FaceTables(file, idx).weight
                    /\ glyphs'[f] = EmptyMap
                    /\ borrow'[f] = 0
              /\ call'.result = "FontParseError" =>
                    /\ fonts' = fonts
                    /\ glyphs' = glyphs
                    /\ borrow' = borrow
                    /\ held' = held
                    /\ scale_context' = scale_context
    ]_vars

\* a construct failed while an earlier Font sharing the scale context had a
\* glyph cached
C12_Witness ==
    /\ call.op = "new_with_data"
    /\ call.result = "FontParseError"
    /\ call.font = 2
    /\ backend = "swash"
    /\ IsSome(fonts[1])
    /\ fonts[2] = None
    /\ glyphs[1] # EmptyMap
    /\ scale_context.strong = 2

\* the largest embedded strike of glyph id g is PNG data
PngAtLargest(file, g) ==
    \E s \in StrikesOf(file, g) :
        /\ s.format = "PNG"
        /\ \A o \in StrikesOf(file, g) : o.pixels_per_em <= s.pixels_per_em

\* glyph() ran on the textlayout backend for a glyph id that was not cached
TextlayoutMiss == backend = "textlayout" /\ GlyphReturned /\ ~call.cached

\* C13 (as stated): on a cache miss the textlayout glyph() extracts the
\* outline first and falls back to a raster strike only when there is no
\* outline: a glyph id with both is cached with its path, and a path-less
\* entry is cached only for a glyph id without outline
C13_OutlineBeforeStrike ==
    backend = "textlayout" =>
        /\ \A f \in Fonts : \A g \in DOMAIN glyphs[f] :
              IsSome(glyphs[f][g].path) <=> HasOutline(Font(f).data, g)
        /\ TextlayoutMiss =>
              /\ call.outline = 1
              /\ call.raster = 1 => ~HasOutline(call.file, call.gid)

\* C13 (amended): on a cache miss the textlayout glyph() looks up the raster
\* strike first and extracts the outline only when the largest strike is not
\* PNG: a glyph id with a PNG strike is cached path-less even when it has an
\* outline, and an entry with a path is cached only for a glyph id that has
\* an outline and no PNG strike at the largest size
C13_StrikeBeforeOutline ==
    backend = "textlayout" =>
        /\ \A f \in Fonts : \A g \in DOMAIN glyphs[f] :
              IF PngAtLargest(Font(f).data, g)
              THEN glyphs[f][g].path = None
              ELSE /\ HasOutline(Font(f).data, g)
                   /\ glyphs[f][g].path = Some(OutlineOf(Font(f).data, g).path)
        /\ TextlayoutMiss =>
              /\ call.raster = 1
              /\ call.outline = 1 <=> ~PngAtLargest(call.file, call.gid)
              /\ call.outline = 0 <=> PngAtLargest(call.file, call.gid)

\* a glyph id with both an outline and a PNG strike was extracted and cached
C13_Witness ==
    /\ TextlayoutMiss
    /\ HasOutline(call.file, call.gid)
    /\ PngAtLargest(call.file, call.gid)
    /\ call.gid \in DOMAIN glyphs[call.font]
    /\ glyphs[call.font][call.gid].path = None
    /\ call.raster = 1
    /\ call.outline = 0

\* the strike the backend returns for the glyph id and the pixels per em of
\* the last glyph_rendering_representation call
RequestedStrike ==
    GlyphRasterImage([file |-> call.file, idx |-> Font(call.font).face_index],
                     call.gid, call.arg)

IsRendering == call.op = "glyph_rendering_representation"

ReturnedImage ==
    /\ IsRendering
    /\ ~call.panicked
    /\ IsSome(call.result)
    /\ Unwrap(call.result).kind = "RenderAsImage"

\* C14 (as stated): on the textlayout backend, whenever the backend returns
\* a strike for the glyph id at the requested pixels per em,
\* glyph_rendering_representation returns the image variant, decoded in
\* that call, before any outline path and without storing anything
C14_StrikeIsImage ==
    (backend = "textlayout" /\ IsRendering /\ IsSome(RequestedStrike)) =>
        /\ ReturnedImage
        /\ call.decodes = 1
        /\ ~call.glyph_called
        /\ glyphs[call.font] = call.glyphs_before

\* C14 (amended): on the textlayout backend with image loading, the strike
\* at the requested pixels per em is looked up in every call before any
\* outline path and its bytes are decoded in every call that finds one;
\* the call returns the image variant exactly when the strike decodes as
\* PNG, and then glyph() is not called and the cache is untouched; a strike
\* that does not decode falls through to glyph().  Without image loading
\* no strike is looked up and no image is returned.
C14_DecodableStrikeIsImage ==
    (backend = "textlayout" /\ IsRendering) =>
        IF imageLoading
        THEN /\ call.selector_raster = 1
             /\ call.decodes = (IF IsSome(RequestedStrike) THEN 1 ELSE 0)
             /\ IF IsSome(RequestedStrike) /\ Unwrap(RequestedStrike).format = "PNG"
                   /\ Unwrap(RequestedStrike).decodable
                THEN /\ ReturnedImage
                     /\ Unwrap(call.result).payload
                           = << call.file, call.gid, Unwrap(RequestedStrike).pixels_per_em >>
                     /\ ~call.glyph_called
                     /\ call.raster = 0 /\ call.outline = 0
                     /\ glyphs[call.font] = call.glyphs_before
                ELSE /\ ~ReturnedImage
                     /\ call.panicked \/ call.glyph_called
        ELSE /\ call.selector_raster = 0
             /\ call.decodes = 0
             /\ ~ReturnedImage

\* the image variant was returned for a glyph id whose path-less Glyph was
\* already cached: the strike was looked up and decoded again
C14_Witness ==
    /\ backend = "textlayout"
    /\ imageLoading
    /\ IsRendering
    /\ ReturnedImage
    /\ call.cached
    /\ call.decodes = 1
    /\ call.selector_raster = 1

\* the backend returned no raster strike to the last
\* glyph_rendering_representation call: none exists at any size, or the
\* build never asks for one
NoStrikeReturned ==
    \/ backend # "textlayout"
    \/ ~imageLoading
    \/ RequestedStrike = None

\* C15: when no raster strike is returned, glyph_rendering_representation
\* delegates to glyph(); a call that returns gives RenderAsPath with the
\* glyph's path exactly when the cached or newly extracted glyph has one,
\* and none when the glyph has no path or does not exist.  A glyph id with
\* no strike and an outline yields RenderAsPath, an absent one yields none.
C15_DelegatesToGlyph ==
    (IsRendering /\ NoStrikeReturned) =>
        /\ call.glyph_called
        /\ call.selector_raster = (IF backend = "textlayout" /\ imageLoading THEN 1 ELSE 0)
        /\ call.decodes = 0
        /\ ~call.panicked =>
              /\ call.glyph_result
                    = (IF call.gid \in DOMAIN glyphs[call.font]
                       THEN Some(glyphs[call.font][call.gid]) ELSE None)
              /\ IF IsSome(call.glyph_result) /\ IsSome(Unwrap(call.glyph_result).path)
                 THEN call.result
                         = Some(RenderAsPath(Unwrap(Unwrap(call.glyph_result).path)))
                 ELSE call.result = None
              /\ StrikesOf(call.file, call.gid) = {} =>
                    IF HasOutline(call.file, call.gid)
                    THEN call.result
                            = Some(RenderAsPath(OutlineOf(call.file, call.gid).path))
                    ELSE call.result = None /\ call.glyph_result = None

\* the delegated glyph() gave a Glyph without a path and the call returned
\* none
C15_Witness ==
    /\ IsRendering
    /\ NoStrikeReturned
    /\ ~call.panicked
    /\ call.glyph_called
    /\ IsSome(call.glyph_result)
    /\ Unwrap(call.glyph_result).path = None
    /\ call.result = None

\* the Fonts constructed so far
Constructed == {f \in Fonts : IsSome(fonts[f])}

C17_MetricsScaled ==
    /\ call.op = "metrics" =>
          LET m    == Font(call.font).metrics
              upm  == Font(call.font).units_per_em
              size == call.arg
              r    == call.result
          IN  /\ r.ascender  = Rat(m.ascender[1] * size,  m.ascender[2] * upm)
              /\ r.descender = Rat(m.descender[1] * size, m.descender[2] * upm)
              /\ r.height    = Rat(m.height[1] * size,    m.height[2] * upm)
              /\ r.flags = m.flags
              /\ r.weight = m.weight
              /\ r.width = m.width
              /\ (upm = 1000 /\ m.ascender = << 800, 1 >> /\ size = 16) =>
                    r.ascender = << 64, 5 >>
    /\ call.op = "scale" =>
          call.result = Rat(call.arg, Font(call.font).units_per_em)

\* metrics(16) of the font with 1000 units per em and ascender 800
C17_Witness ==
    /\ call.op = "metrics"
    /\ call.arg = 16
    /\ Font(call.font).units_per_em = 1000
    /\ Font(call.font).metrics.ascender = << 800, 1 >>
    /\ call.result.ascender = << 64, 5 >>
    /\ call.result.descender = << -16, 5 >>
    /\ call.result.weight = 400

\* a float that compares >= 0.0 (a NaN does not)
FGe0(a) == IF a[2] = 0 THEN a[1] = 1 ELSE a[1] >= 0

\* h is an integer value nearest to the float x; an infinity or a NaN stays
NearestInteger(h, x) ==
    IF IsFinite(x)
    THEN h[2] = 1 /\ 2 * Abs(h[1] * x[2] - x[1]) <= x[2]
    ELSE h = x

\* C18 (as stated): metrics(size).height() is >= 0 and is the scaled height
\* rounded to the nearest integer value, for every Font and every size
C18_HeightNonNegative ==
    call.op = "metrics" =>
        /\ FGe0(Unwrap(call.height))
        /\ NearestInteger(Unwrap(call.height), call.result.height)

\* C18 (amended): metrics(size).height() is the scaled height rounded to the
\* nearest integer value (an infinite one is returned as it is), for every
\* Font and every size; it is >= 0 when the size and the stored height are
\* positive
C18_HeightRounded ==
    call.op = "metrics" =>
        /\ NearestInteger(Unwrap(call.height), call.result.height)
        /\ call.result.height
              = Rat(Font(call.font).metrics.height[1] * call.arg,
                    Font(call.font).metrics.height[2] * Font(call.font).units_per_em)
        /\ (call.arg > 0 /\ FGe0(Font(call.font).metrics.height)
            /\ Font(call.font).metrics.height[1] # 0) =>
              FGe0(Unwrap(call.height))

\* 2400 font units at size 16 and 2048 units per em: 18.75 is reported as 19
C18_Witness ==
    /\ call.op = "metrics"
    /\ call.arg = 16
    /\ Font(call.font).metrics.height = << 2400, 1 >>
    /\ call.result.height = << 75, 4 >>
    /\ call.height = Some(<< 19, 1 >>)

(***************************************************************************)
(* The constructors as functions of what the parsing library reports for   *)
(* a face.  FaceSpec constructs one Font from a file whose only face has   *)
(* the values t, drawn from FaceValues, and reads its metrics back.        *)
(***************************************************************************)
MaxWeight == 1001

\* usWeightClass as handed on by the library: any u16
Weights == {0, 1, 400, 700, 1000, MaxWeight}

\* ttf_parser Width::to_number()
Widths == {1, 5, 9}

Styles == {"Normal", "Italic", "Oblique"}

\* swash::Stretch: the nine named values and a ratio between two of them
Stretches == {"ULTRA_CONDENSED", "EXTRA_CONDENSED", "CONDENSED", "SEMI_CONDENSED",
              "NORMAL", "SEMI_EXPANDED", "EXPANDED", "EXTRA_EXPANDED",
              "ULTRA_EXPANDED", "from_ratio(0.9)"}

FaceValues ==
    [units_per_em : {1000}, ascender : {800}, descender : {-200}, line_gap : {90},
     weight : Weights, width : Widths, style : Styles, stretch : Stretches,
     bold : BOOLEAN, variable : BOOLEAN]

\* the Font that new_with_data returns for a file whose face 0 reports t
FontOfFace(t, metrics) ==
    Some([data |-> t, face_index |-> 0, units_per_em |-> t.units_per_em,
          metrics |-> metrics])

NewWithFaceTextlayout(t) ==
    /\ backend = "textlayout"
    /\ Construct(1, t, 0, FontOfFace(t, TextlayoutMetricsOf(t)))
    /\ UNCHANGED scale_context

NewWithFaceSwash(t) ==
    /\ backend = "swash"
    /\ Construct(1, t, 0, FontOfFace(t, SwashMetricsOf(t)))
    /\ scale_context' = SwashScaleContext(scale_context,
                                          FontOfFace(t, SwashMetricsOf(t)))

FaceInit == Init /\ backend # "none" /\ ~imageLoading

FaceNext ==
    \/ \E t \in FaceValues : NewWithFaceTextlayout(t)
    \/ \E t \in FaceValues : NewWithFaceSwash(t)
    \/ \E size \in Sizes : Metrics(1, size)
    \/ \E size \in Sizes : Scale(1, size)

FaceSpec == FaceInit /\ [][FaceNext]_vars

\* C19: every constructed Font, on either backend and whatever weight and
\* width the font file reports, stores a weight in 1..1000 and a width in
\* 1..9, and metrics(size) reports these same values
C19_WeightWidthBounded ==
    /\ \A f \in Fonts : IsSome(fonts[f]) =>
          /\ Font(f).metrics.weight \in 1..1000
          /\ Font(f).metrics.width \in 1..9
    /\ call.op = "metrics" =>
          /\ call.result.weight = Font(call.font).metrics.weight
          /\ call.result.width = Font(call.font).metrics.width
          /\ call.result.weight \in 1..1000
          /\ call.result.width \in 1..9

\* the usWidthClass of the nine named stretch values
WidthClassOf ==
    [ULTRA_CONDENSED |-> 1, EXTRA_CONDENSED |-> 2, CONDENSED |-> 3,
     SEMI_CONDENSED |-> 4, NORMAL |-> 5, SEMI_EXPANDED |-> 6, EXPANDED |-> 7,
     EXTRA_EXPANDED |-> 8, ULTRA_EXPANDED |-> 9]

\* C20: on the swash backend the stored width class is a fixed function of
\* the stretch the face reports: the nine named values give 1..9 in order,
\* any other stretch gives 5; metrics(size) reports the same width
C20_WidthFromStretch ==
    backend = "swash" =>
        /\ \A f \in Fonts : IsSome(fonts[f]) =>
              Font(f).metrics.width
                 = (IF Font(f).data.stretch \in DOMAIN WidthClassOf
                    THEN WidthClassOf[Font(f).data.stretch]
                    ELSE 5)
        /\ call.op = "metrics" =>
              call.result.width = Font(call.font).metrics.width

\* a face whose stretch is none of the nine named values was given width 5
C20_Witness ==
    /\ backend = "swash"
    /\ call.op = "new_with_data"
    /\ call.result = "Ok"
    /\ IsSome(fonts[1])
    /\ Font(1).data.stretch \notin DOMAIN WidthClassOf
    /\ Font(1).data.width # 5
    /\ Font(1).metrics.width = 5

\* what swash reports for the face of a constructed Font: ascent and descent
\* as distances from the baseline, and the leading
ReportedAscent(f)  == FaceTables(Font(f).data, Font(f).face_index).ascender
ReportedDescent(f) == -FaceTables(Font(f).data, Font(f).face_index).descender
ReportedLeading(f) == FaceTables(Font(f).data, Font(f).face_index).line_gap

\* C21: on the swash backend the stored descender is the negation of the
\* reported descent and the stored height is ascent + descent + leading, so
\* that, descent being a positive magnitude, the descender is <= 0 and,
\* when the leading is >= 0, the height is >= ascender - descender
C21_SwashHeightIsSum ==
    backend = "swash" =>
        \A f \in Fonts : IsSome(fonts[f]) =>
            LET m == Font(f).metrics
            IN  /\ m.ascender = F32(ReportedAscent(f))
                /\ m.descender = F32(-ReportedDescent(f))
                /\ m.height = F32(ReportedAscent(f) + ReportedDescent(f)
                                  + ReportedLeading(f))
                /\ ReportedDescent(f) >= 0 => m.descender[1] <= 0
                /\ ReportedLeading(f) >= 0 =>
                      m.height[1] >= m.ascender[1] - m.descender[1]

\* a swash Font with ascent 800, descent 200 and leading 90
C21_Witness ==
    /\ backend = "swash"
    /\ call.op = "new_with_data"
    /\ call.result = "Ok"
    /\ ReportedDescent(call.font) = 200
    /\ ReportedLeading(call.font) = 90
    /\ Font(call.font).metrics.descender = << -200, 1 >>
    /\ Font(call.font).metrics.height = << 1090, 1 >>

\* C22: on the swash backend the style flags of a constructed Font are:
\* regular iff weight = 400, style Normal and stretch NORMAL; bold iff
\* weight >= 700; italic iff style Italic; oblique iff style Oblique;
\* variable iff the face has a variation axis
C22_SwashFlags ==
    backend = "swash" =>
        \A f \in Fonts : IsSome(fonts[f]) =>
            LET t     == Font(f).data
                flags == Font(f).metrics.flags
            IN  /\ FlagsRegular(flags) <=>
                      (t.weight = 400 /\ t.style = "Normal" /\ t.stretch = "NORMAL")
                /\ FlagsBold(flags) <=> t.weight >= 700
                /\ FlagsItalic(flags) <=> t.style = "Italic"
                /\ FlagsOblique(flags) <=> t.style = "Oblique"
                /\ FlagsVariable(flags) <=> t.variable

\* a variable face of weight exactly 700 and style Italic is bold and italic
C22_Witness ==
    /\ backend = "swash"
    /\ call.op = "new_with_data"
    /\ IsSome(fonts[1])
    /\ Font(1).data.weight = 700
    /\ Font(1).data.style = "Italic"
    /\ Font(1).data.variable
    /\ ~Font(1).data.bold
    /\ FlagsBold(Font(1).metrics.flags)
    /\ FlagsItalic(Font(1).metrics.flags)
    /\ FlagsVariable(Font(1).metrics.flags)
    /\ ~FlagsRegular(Font(1).metrics.flags)
    /\ ~FlagsOblique(Font(1).metrics.flags)

(***************************************************************************)
(* The textlayout lookups on fonts with embedded bitmaps.  BitmapSpec      *)
(* runs the same constructor and lookups as Spec on the files "emoji" and  *)
(* "bitmap".                                                               *)
(***************************************************************************)
BitmapFiles == {"emoji", "bitmap"}

BitmapInit == Init /\ backend = "textlayout"

BitmapNext ==
    \/ \E f \in Fonts, file \in BitmapFiles, idx \in FaceIndices :
          NewWithDataTextlayout(f, file, idx)
    \/ \E f \in Fonts, g \in GlyphIds : GlyphTextlayout(f, g)
    \/ \E f \in Fonts, g \in GlyphIds, ppem \in PixelsPerEm :
          GlyphRenderingTextlayout(f, g, ppem)
    \/ \E f \in Fonts : DropRef(f)

BitmapSpec == BitmapInit /\ [][BitmapNext]_vars

\* the strike glyph() takes for glyph id g: the largest one
LargestStrike(file, g) ==
    CHOOSE s \in StrikesOf(file, g) :
        \A o \in StrikesOf(file, g) : o.pixels_per_em <= s.pixels_per_em

\* v strike pixels in font units: times units_per_em / pixels_per_em, and
\* unchanged when the strike records 0 pixels per em
StrikeUnits(v, units_per_em, pixels_per_em) ==
    IF pixels_per_em = 0 THEN << v, 1 >> ELSE Rat(v * units_per_em, pixels_per_em)

\* C23: a glyph cached from an embedded raster strike has no path and the
\* strike's width, height, x and y + height as its metrics, each multiplied
\* by units_per_em / pixels_per_em, or by 1 when the strike's pixels per em
\* is 0
C23_StrikeMetrics ==
    backend = "textlayout" =>
        \A f \in Fonts : \A g \in DOMAIN glyphs[f] :
            PngAtLargest(Font(f).data, g) =>
                LET s   == LargestStrike(Font(f).data, g)
                    upm == Font(f).units_per_em
                    m   == glyphs[f][g].metrics
                IN  /\ glyphs[f][g].path = None
                    /\ m.width     = StrikeUnits(s.width, upm, s.pixels_per_em)
                    /\ m.height    = StrikeUnits(s.height, upm, s.pixels_per_em)
                    /\ m.bearing_x = StrikeUnits(s.x, upm, s.pixels_per_em)
                    /\ m.bearing_y = StrikeUnits(s.y + s.height, upm, s.pixels_per_em)
                    /\ IsFinite(m.width) /\ IsFinite(m.height)
                    /\ IsFinite(m.bearing_x) /\ IsFinite(m.bearing_y)

\* one Font cached a glyph from a strike of 0 pixels per em, another one a
\* glyph from a strike of 64 pixels per em
C23_Witness ==
    /\ backend = "textlayout"
    /\ \E f \in Fonts :
          /\ IsSome(fonts[f]) /\ Font(f).data = "bitmap"
          /\ 0 \in DOMAIN glyphs[f]
          /\ LargestStrike("bitmap", 0).pixels_per_em = 0
          /\ glyphs[f][0].path = None
          /\ glyphs[f][0].metrics.width = << 30, 1 >>
          /\ glyphs[f][0].metrics.bearing_y = << 27, 1 >>
    /\ \E f \in Fonts :
          /\ IsSome(fonts[f]) /\ Font(f).data = "emoji"
          /\ 1 \in DOMAIN glyphs[f]
          /\ glyphs[f][1].path = None
          /\ glyphs[f][1].metrics.width = << 1920, 1 >>
          /\ glyphs[f][1].metrics.bearing_x = << 64, 1 >>

\* C24: a glyph_rendering_representation call that returns the image
\* variant leaves the glyph cache as it was, without calling glyph(), and
\* the value it returns borrows nothing: the cache's borrow flag counts only
\* the Ref the caller held before, and a lookup made on the same Font right
\* after it, with no such Ref held, does not abort
C24_ImageBorrowsNothing ==
    /\ [](ReturnedImage =>
            /\ glyphs[call.font] = call.glyphs_before
            /\ ~call.glyph_called
            /\ call.raster = 0 /\ call.outline = 0
            /\ (call.gid \in DOMAIN glyphs[call.font]) = call.cached
            /\ IsSome(held[call.font]) = call.ref_held
            /\ borrow[call.font] = (IF call.ref_held THEN 1 ELSE 0))
    /\ [][(ReturnedImage /\ ~call.ref_held
           /\ call'.op \in {"glyph", "glyph_rendering_representation"}
           /\ call'.font = call.font)
          => (~call'.panicked /\ ~aborted')]_vars

\* the image variant was returned for a glyph id that glyph() was never
\* asked for: nothing is cached and nothing is borrowed
C24_Witness ==
    /\ ReturnedImage
    /\ ~call.ref_held
    /\ ~call.queried
    /\ call.gid \notin DOMAIN glyphs[call.font]
    /\ borrow[call.font] = 0
    /\ held[call.font] = None

\* the last glyph_rendering_representation call was given a strike it could
\* not turn into an image: the bytes do not decode as PNG, or image loading
\* is not compiled in
StrikeNotDecoded ==
    /\ backend = "textlayout"
    /\ IsRendering
    /\ IsSome(GlyphRasterImage([file |-> call.file,
                                idx |-> Font(call.font).face_index],
                               call.gid, call.arg))
    /\ ~imageLoading \/ ~Unwrap(RequestedStrike).decodable

\* what the call gives for a glyph id with an outline
OutlineRendering == Some(RenderAsPath(OutlineOf(call.file, call.gid).path))

\* C25 (as stated): a strike that exists but is not decoded makes
\* glyph_rendering_representation fall through to glyph(); the call yields
\* none when that strike is PNG-format, even if the glyph has an outline,
\* and RenderAsPath when the strike is not PNG and an outline exists
C25_ByRequestedStrike ==
    StrikeNotDecoded =>
        /\ call.glyph_called
        /\ ~call.ref_held =>
              /\ ~call.panicked
              /\ IF Unwrap(RequestedStrike).format = "PNG"
                 THEN call.result = None
                 ELSE HasOutline(call.file, call.gid) => call.result = OutlineRendering

\* C25 (amended): a strike that exists but is not decoded makes
\* glyph_rendering_representation fall through to glyph(); the call yields
\* none when the glyph id's largest strike, the one glyph() consults, is
\* PNG-format, even if the glyph has an outline, and RenderAsPath when that
\* strike is not PNG and an outline exists
C25_ByLargestStrike ==
    StrikeNotDecoded =>
        /\ call.glyph_called
        /\ ~ReturnedImage
        /\ ~call.ref_held =>
              /\ ~call.panicked
              /\ IF PngAtLargest(call.file, call.gid)
                 THEN call.result = None /\ IsSome(call.glyph_result)
                 ELSE IF HasOutline(call.file, call.gid)
                      THEN call.result = OutlineRendering
                      ELSE call.result = None

\* with image loading, a corrupt PNG strike of a glyph id that has an
\* outline fell through and the call returned none
C25_Witness ==
    /\ StrikeNotDecoded
    /\ imageLoading
    /\ Unwrap(RequestedStrike).format = "PNG"
    /\ HasOutline(call.file, call.gid)
    /\ call.decodes = 1
    /\ call.glyph_called
    /\ ~call.panicked
    /\ call.result = None

\* what the backend reports for glyph id g of Font f at the maximum pixels
\* per em
StrikeAtMax(f, g) ==
    GlyphRasterImage([file |-> Font(f).data, idx |-> Font(f).face_index], g, U16Max)

\* C26: on the textlayout backend every cache entry has one of two shapes,
\* which it keeps: no path if and only if the backend reported a PNG strike
\* for the glyph id at the maximum pixels per em, otherwise the outline's
\* path with the metrics of its bounding box; a strike of another format
\* never gives an entry without path
C26_TwoShapes ==
    /\ [](backend = "textlayout" =>
            \A f \in Fonts : \A g \in DOMAIN glyphs[f] :
                LET raster == StrikeAtMax(f, g)
                    png    == IsSome(raster) /\ Unwrap(raster).format = "PNG"
                    bbox   == OutlineOf(Font(f).data, g).bbox
                    entry  == glyphs[f][g]
                IN  /\ entry.path = None <=> png
                    /\ ~png =>
                          /\ entry.path = Some(OutlineOf(Font(f).data, g).path)
                          /\ entry.metrics.width = F32(bbox.x_max - bbox.x_min)
                          /\ entry.metrics.height = F32(bbox.y_max - bbox.y_min)
                          /\ entry.metrics.bearing_x = F32(bbox.x_min)
                          /\ entry.metrics.bearing_y = F32(bbox.y_max)
                    /\ (IsSome(raster) /\ Unwrap(raster).format # "PNG") =>
                          IsSome(entry.path))
    /\ [][\A f \in Fonts : \A g \in DOMAIN glyphs[f] :
             /\ g \in DOMAIN glyphs'[f]
             /\ glyphs'[f][g] = glyphs[f][g]]_vars

\* one Font holds an entry with a path for a glyph id whose largest strike
\* is not PNG and an entry without path for a glyph id with a PNG strike
C26_Witness ==
    /\ backend = "textlayout"
    /\ \E f \in Fonts :
          /\ IsSome(fonts[f])
          /\ DOMAIN glyphs[f] = {0, 1}
          /\ IsSome(StrikeAtMax(f, 0))
          /\ Unwrap(StrikeAtMax(f, 0)).format # "PNG"
          /\ IsSome(glyphs[f][0].path)
          /\ Unwrap(StrikeAtMax(f, 1)).format = "PNG"
          /\ glyphs[f][1].path = None

\* C27: on the swash backend every cached Glyph has a path, in every state;
\* a glyph_rendering_representation call that returns gives RenderAsPath of
\* the glyph's path exactly when glyph() gives a glyph for that id, and
\* none exactly when glyph() gives none
C27_SwashGlyphsHavePaths ==
    backend = "swash" =>
        /\ \A f \in Fonts : \A g \in DOMAIN glyphs[f] : IsSome(glyphs[f][g].path)
        /\ (IsLookup /\ ~call.panicked) =>
              /\ call.glyph_called
              \* what glyph() gives for the id, asked directly or by delegation
              /\ IsSome(call.glyph_result) <=> HasOutline(call.file, call.gid)
              /\ call.glyph_result = FreshGlyph(call.font, call.gid)
              /\ IsRendering =>
                    /\ IsSome(call.result) <=> IsSome(call.glyph_result)
                    /\ IsSome(call.result) =>
                          call.result
                             = Some(RenderAsPath(Unwrap(Unwrap(call.glyph_result).path)))

\* glyph_rendering_representation returned the path of a glyph that an
\* earlier glyph() call had returned and cached
C27_Witness ==
    /\ backend = "swash"
    /\ IsRendering
    /\ ~call.panicked
    /\ call.cached
    /\ call.queried
    /\ first[call.font][call.gid] = Some(call.glyph_result)
    /\ IsSome(call.result)
    /\ Unwrap(call.result).kind = "RenderAsPath"

\* C28: the glyph caches of distinct Fonts are independent: a glyph() or
\* glyph_rendering_representation() call on one Font leaves the bytes,
\* metrics, cache and borrow flag of every other Font as they were, also
\* when the Fonts share the scale context, and it does not abort because of
\* a glyph reference held from another Font
C28_FontsIndependent ==
    [][call'.op \in {"glyph", "glyph_rendering_representation"} =>
          /\ \A e \in Fonts \ {call'.font} :
                /\ fonts'[e] = fonts[e]
                /\ glyphs'[e] = glyphs[e]
                /\ borrow'[e] = borrow[e]
                /\ held'[e] = held[e]
          /\ fonts'[call'.font] = fonts[call'.font]
          /\ held[call'.font] = None => (~call'.panicked /\ ~aborted')
    ]_vars

\* a Font sharing the scale context extracted and cached a glyph while a
\* glyph reference of the other Font was held
C28_Witness ==
    /\ backend = "swash"
    /\ IsLookup
    /\ call.font = 2
    /\ ~call.panicked
    /\ ~call.cached
    /\ call.outline = 1
    /\ call.gid \in DOMAIN glyphs[2]
    /\ IsSome(held[1])
    /\ borrow[1] = 1
    /\ glyphs[1] # EmptyMap

\* C29: for every Font constructed by the swash backend, regular and bold
\* are never both set, italic and oblique are never both set, and regular
\* is never set together with italic or oblique; the five flag accessors
\* return the five booleans given to FontFlags::new, whatever the other
\* four are, and metrics(size) reports the same flags
C29_FlagsExclusive ==
    /\ \A regular \in BOOLEAN, italic \in BOOLEAN, bold \in BOOLEAN,
          oblique \in BOOLEAN, variable \in BOOLEAN :
          LET flags == FontFlagsNew(regular, italic, bold, oblique, variable)
          IN  /\ FlagsRegular(flags) = regular
              /\ FlagsItalic(flags) = italic
              /\ FlagsBold(flags) = bold
              /\ FlagsOblique(flags) = oblique
              /\ FlagsVariable(flags) = variable
    /\ backend = "swash" =>
          /\ \A f \in Fonts : IsSome(fonts[f]) =>
                LET flags == Font(f).metrics.flags
                IN  /\ ~(FlagsRegular(flags) /\ FlagsBold(flags))
                    /\ ~(FlagsItalic(flags) /\ FlagsOblique(flags))
                    /\ ~(FlagsRegular(flags) /\ FlagsItalic(flags))
                    /\ ~(FlagsRegular(flags) /\ FlagsOblique(flags))
          /\ call.op = "metrics" =>
                call.result.flags = Font(call.font).metrics.flags

\* metrics() of a swash Font of weight 1000 and style Oblique with a
\* variation axis: bold, oblique and variable, neither regular nor italic
C29_Witness ==
    /\ backend = "swash"
    /\ call.op = "metrics"
    /\ Font(call.font).data.weight = 1000
    /\ Font(call.font).data.style = "Oblique"
    /\ Font(call.font).data.variable
    /\ FlagsBold(call.result.flags)
    /\ FlagsOblique(call.result.flags)
    /\ FlagsVariable(call.result.flags)
    /\ ~FlagsRegular(call.result.flags)
    /\ ~FlagsItalic(call.result.flags)

\* C30: on the textlayout backend face_ref() never aborts for a constructed
\* Font: the stored bytes and face index are the ones that parsed at
\* construction and are never changed afterwards, so that parsing them again
\* succeeds in every state, and a lookup aborts only on a RefCell borrow
C30_FaceRefNeverAborts ==
    /\ [](backend = "textlayout" =>
            /\ \A f \in Constructed : IsSome(FaceRef(f))
            /\ (call.op = "new_with_data" /\ call.result = "Ok") =>
                  /\ Font(call.font).data = call.file
                  /\ Font(call.font).face_index = call.arg
                  /\ FaceRef(call.font) = TtfParse(call.file, call.arg))
    /\ [][backend = "textlayout" =>
            /\ \A f \in Constructed : fonts'[f] = fonts[f]
            /\ (aborted' /\ ~aborted) => call'.panicked]_vars

\* a lookup in the second Font parsed its bytes again and returned a glyph
\* that an earlier lookup had cached, after lookups in the first Font
C30_Witness ==
    /\ backend = "textlayout"
    /\ IsLookup
    /\ ~call.panicked
    /\ ~aborted
    /\ call.font = 2
    /\ IsSome(FaceRef(2))
    /\ glyphs[1] # EmptyMap
    /\ IsSome(call.result)
    /\ call.cached
    /\ held[call.font] = None

====
